---- MODULE Spec2Model ----
(***************************************************************************)
(* Model of the bigram pipeline of src/deprecated/generate_bigram_repr.py  *)
(* (count_bigrams, get_top_n, get_bigram_to_dim_mapping,                   *)
(* dump_bigram_to_dim_mapping, gen_bigram_repr) and of the loader of       *)
(* src/bigram_based_models.py (load_id_to_label, load_id_to_repr,          *)
(* load_data).                                                             *)
(*                                                                         *)
(* Conventions.  A text is the sequence of its characters, a character is  *)
(* its code point (a is 97, b is 98).  A bigram, which the code builds as  *)
(* the two-character string bigram[0]+bigram[1], is the sequence of its    *)
(* two characters.  The other fields of a csv row are atomic strings.  A   *)
(* Python dict is the sequence of its <<key, value>> pairs in insertion    *)
(* order, keys pairwise distinct.  A csv row is the sequence of its        *)
(* fields.                                                                 *)
(***************************************************************************)
EXTENDS Integers, Sequences, FiniteSets, TLC

VARIABLES
    pc,                     \* position of the running function
    fin,                    \* the rows the reader of the input file has yielded so far
    unpacked,               \* the names bound by the last successful tuple unpacking
    \* gen_bigram_repr
    mapping_file,           \* the file at path_mapping: NoFile, or its text
    mapping,                \* the dict json.load returned (in
                            \* get_bigram_to_dim_mapping: the dict being built)
    num_dims,               \* len(mapping)
    fout,                   \* the file at path_out
    write_list,             \* the row buffer
    \* count_bigrams
    bigram_counts_ch,
    bigram_counts_other,
    \* get_top_n
    bigram_counts,
    n,
    top_n,                  \* the dict returned
    \* get_bigram_to_dim_mapping, dump_bigram_to_dim_mapping
    top_n_ch,
    top_n_other,
    all_bigrams,            \* the elements of the set the loop has not reached yet
    i,
    bigram_to_dim_mapping,  \* the dict given to dump_bigram_to_dim_mapping
    \* load_id_to_label
    limit,
    id_to_label,
    num_zeros,
    num_ones,
    \* load_id_to_repr, load_data
    id_to_repr,
    id_list_ordered,
    X_train,
    y_train

encVars == <<mapping_file, mapping, num_dims, fout, write_list>>

cntVars == <<bigram_counts_ch, bigram_counts_other>>

topVars == <<bigram_counts, n, top_n>>

mapVars == <<top_n_ch, top_n_other, all_bigrams, i, bigram_to_dim_mapping>>

labVars == <<limit, id_to_label, num_zeros, num_ones>>

reprVars == <<id_to_repr, id_list_ordered, X_train, y_train>>

vars == <<pc, fin, unpacked, encVars, cntVars, topVars, mapVars, labVars, reprVars>>

\* The variables gen_bigram_repr does not touch.
notEnc == <<cntVars, topVars, mapVars, labVars, reprVars>>

(***************************************************************************)
(* Bounds of the model.                                                    *)
(***************************************************************************)
\* Stands for the literal 10000 of lines 161 and 167: the functions are
\* modelled for an arbitrary cadence and checked for a small one, so that
\* flushes happen within the bounded input.
FlushCadence == 2
\* Longest input (in csv rows) given to gen_bigram_repr.
MaxLines == 5
\* Longest text of a record.
MaxTextLen == 5
\* Largest count of a bigram in the dict given to get_top_n.
MaxCount == 3
\* Largest limit given to load_id_to_label.
MaxLimit == 3
\* Most entries, and largest index, of a mapping given to
\* dump_bigram_to_dim_mapping.
MaxEntries == 2
MaxIndex == 10

(***************************************************************************)
(* The values of the variables of the functions that are not running.      *)
(***************************************************************************)
NoFile == [exists |-> FALSE, text |-> <<>>]

Unbound ==
    [bound |-> FALSE, text_id |-> 0, text |-> <<>>, label_binary |-> "",
     label_ternary |-> "", label_finegrained |-> ""]

IdleEnc ==
    /\ mapping_file = NoFile
    /\ mapping = <<>>
    /\ num_dims = 0
    /\ fout = NoFile
    /\ write_list = <<>>

IdleCnt == bigram_counts_ch = <<>> /\ bigram_counts_other = <<>>

IdleTop == bigram_counts = <<>> /\ n = 0 /\ top_n = <<>>

IdleMap ==
    /\ top_n_ch = <<>>
    /\ top_n_other = <<>>
    /\ all_bigrams = {}
    /\ i = 0
    /\ bigram_to_dim_mapping = <<>>

IdleLab == limit = 0 /\ id_to_label = <<>> /\ num_zeros = 0 /\ num_ones = 0

IdleRepr == id_to_repr = <<>> /\ id_list_ordered = <<>> /\ X_train = <<>> /\ y_train = <<>>

(***************************************************************************)
(* Python dicts.                                                           *)
(***************************************************************************)
DictKeys(d) == {d[j][1] : j \in 1..Len(d)}

DictHas(d, k) == \E j \in 1..Len(d) : d[j][1] = k

DictGet(d, k) == d[CHOOSE j \in 1..Len(d) : d[j][1] = k][2]

\* d[k] = v: a new key is appended, a present key keeps its place.
DictSet(d, k, v) ==
    IF DictHas(d, k)
    THEN [j \in 1..Len(d) |-> IF d[j][1] = k THEN <<k, v>> ELSE d[j]]
    ELSE Append(d, <<k, v>>)

DictItems(d) == {d[j] : j \in 1..Len(d)}

\* The injective sequences of length len over set.
Injections(len, set) ==
    {f \in [1..len -> set] : \A x, y \in 1..len : x # y => f[x] # f[y]}

(***************************************************************************)
(* json.dump of a {bigram: index} dict (line 111).  The file is the         *)
(* sequence of the code points of its characters.                          *)
(***************************************************************************)
\* str(num) of an int: a minus sign for a negative one, then the decimal
\* digits ('-' is 45, '0' is 48).
RECURSIVE IntToStr(_)
IntToStr(num) ==
    IF num < 0 THEN <<45>> \o IntToStr(0 - num)
    ELSE IF num < 10 THEN <<48 + num>>
    ELSE IntToStr(num \div 10) \o <<48 + (num % 10)>>

\* The lower-case hex digit of v in 0..15 ('0' is 48, 'a' is 97).
HexDigit(v) == IF v < 10 THEN 48 + v ELSE 87 + v

\* '\\u{0:04x}'.format(code), for code < 65536 ('\' is 92, 'u' is 117).
UEscape(code) ==
    <<92, 117, HexDigit(code \div 4096), HexDigit((code \div 256) % 16),
      HexDigit((code \div 16) % 16), HexDigit(code % 16)>>

\* What json.dump writes for the character c of a string (ensure_ascii):
\* the quote (34) and the backslash (92) behind a backslash, the control
\* characters \n \r \t \f \b as these two-character escapes, every other
\* character from the space (32) to the tilde (126) as it is, every other
\* character as \uXXXX, as a surrogate pair from 65536 on.
JsonEscapeNone(c) == <<c>>

JsonEscape(c) ==
    IF c = 34 THEN <<92, 34>>
    ELSE IF c = 92 THEN <<92, 92>>
    ELSE IF c = 10 THEN <<92, 110>>
    ELSE IF c = 13 THEN <<92, 114>>
    ELSE IF c = 9 THEN <<92, 116>>
    ELSE IF c = 12 THEN <<92, 102>>
    ELSE IF c = 8 THEN <<92, 98>>
    ELSE IF c >= 32 /\ c <= 126 THEN <<c>>
    ELSE IF c < 65536 THEN UEscape(c)
    ELSE UEscape(55296 + ((c - 65536) \div 1024)) \o UEscape(56320 + ((c - 65536) % 1024))

\* The characters written between the quotes for the string key.
RECURSIVE JsonString(_)
JsonString(key) ==
    IF key = <<>> THEN <<>>
    ELSE JsonEscape(Head(key)) \o JsonString(Tail(key))

\* The text between the braces: "key": value, the items separated by a
\* comma and a space (':' is 58, ',' is 44).
RECURSIVE JsonItems(_)
JsonItems(d) ==
    IF d = <<>> THEN <<>>
    ELSE <<34>> \o JsonString(d[1][1]) \o <<34, 58, 32>> \o IntToStr(d[1][2])
         \o (IF Len(d) > 1 THEN <<44, 32>> ELSE <<>>) \o JsonItems(Tail(d))

\* json.dump(bigram_to_dim_mapping, f) of a dict of str keys and int
\* values: the text written ('{' is 123, '}' is 125).
JsonDump(d) == <<123>> \o JsonItems(d) \o <<125>>

(***************************************************************************)
(* json.load (line 140).  A JSON value is loaded as a record of its Python *)
(* type t and its value v: an int with its number, a str with its          *)
(* characters, a list with its elements, a dict with its <<key, value>>    *)
(* pairs; a float is kept as the characters of its literal (its value is   *)
(* float() of them); None, True and False have no v worth reading.         *)
(***************************************************************************)
JInt(num) == [t |-> "int", v |-> num]

JFloat(literal) == [t |-> "float", v |-> literal]

JStr(chars) == [t |-> "str", v |-> chars]

JList(elements) == [t |-> "list", v |-> elements]

JDict(pairs) == [t |-> "dict", v |-> pairs]

JNone == [t |-> "None", v |-> <<>>]

JTrue == [t |-> "True", v |-> <<>>]

JFalse == [t |-> "False", v |-> <<>>]

\* The outcome of a scan: not ok (JSONDecodeError), or ok with the value and
\* the position after it (positions count from 1).
JsonError == [ok |-> FALSE, val |-> <<>>, pos |-> 0]

Scanned(val, pos) == [ok |-> TRUE, val |-> val, pos |-> pos]

\* Space, tab, line feed and carriage return.
RECURSIVE SkipWs(_, _)
SkipWs(s, p) ==
    IF p <= Len(s) /\ s[p] \in {32, 9, 10, 13} THEN SkipWs(s, p + 1) ELSE p

\* '0' (48) to '9' (57).
IsDigit(c) == c >= 48 /\ c <= 57

\* 0-9, A-F (65-70), a-f (97-102).
IsHex(c) == IsDigit(c) \/ (c >= 65 /\ c <= 70) \/ (c >= 97 /\ c <= 102)

HexVal(c) == IF IsDigit(c) THEN c - 48 ELSE IF c <= 70 THEN c - 55 ELSE c - 87

\* The four hex digits at p..p+3: ok and their number, or not ok.
ScanHex4(s, p) ==
    IF p + 3 <= Len(s) /\ \A k \in 0..3 : IsHex(s[p + k])
    THEN [ok |-> TRUE,
          val |-> 4096 * HexVal(s[p]) + 256 * HexVal(s[p + 1])
                  + 16 * HexVal(s[p + 2]) + HexVal(s[p + 3])]
    ELSE [ok |-> FALSE, val |-> 0]

\* The character a backslash and esc stand for: the quote (34), the
\* backslash (92) and the slash (47) themselves, b f n r t (98, 102, 110,
\* 114, 116) the control characters 8, 12, 10, 13, 9; 0 for any other esc.
Unescape(esc) ==
    IF esc \in {34, 92, 47} THEN esc
    ELSE IF esc = 98 THEN 8
    ELSE IF esc = 102 THEN 12
    ELSE IF esc = 110 THEN 10
    ELSE IF esc = 114 THEN 13
    ELSE IF esc = 116 THEN 9
    ELSE 0

\* The string whose opening quote is just before position p, acc being the
\* characters read so far.  A raw control character (below 32) and an
\* unknown escape are errors; \uXXXX is the character of that number, and a
\* high surrogate (55296-56319) followed by the escape of a low one
\* (56320-57343) is the one character the pair encodes.
RECURSIVE ScanString(_, _, _)
ScanString(s, p, acc) ==
    IF p > Len(s) THEN JsonError
    ELSE IF s[p] = 34 THEN Scanned(acc, p + 1)
    ELSE IF s[p] < 32 THEN JsonError
    ELSE IF s[p] # 92 THEN ScanString(s, p + 1, Append(acc, s[p]))
    ELSE IF p + 1 > Len(s) THEN JsonError
    ELSE IF s[p + 1] = 117
         THEN LET hi == ScanHex4(s, p + 2) IN
              IF ~hi.ok THEN JsonError
              ELSE IF /\ hi.val >= 55296 /\ hi.val <= 56319
                      /\ p + 7 <= Len(s) /\ s[p + 6] = 92 /\ s[p + 7] = 117
              THEN LET lo == ScanHex4(s, p + 8) IN
                   IF ~lo.ok THEN JsonError
                   ELSE IF lo.val >= 56320 /\ lo.val <= 57343
                   THEN ScanString(s, p + 12,
                            Append(acc, 65536 + 1024 * (hi.val - 55296) + (lo.val - 56320)))
                   ELSE ScanString(s, p + 6, Append(acc, hi.val))
              ELSE ScanString(s, p + 6, Append(acc, hi.val))
    ELSE IF Unescape(s[p + 1]) # 0
         THEN ScanString(s, p + 2, Append(acc, Unescape(s[p + 1])))
    ELSE JsonError

\* The position after the digits that start at p.
RECURSIVE SkipDigits(_, _)
SkipDigits(s, p) == IF p <= Len(s) /\ IsDigit(s[p]) THEN SkipDigits(s, p + 1) ELSE p

\* The number the digits s[p..q-1] write, acc being the number of the
\* digits before p.
RECURSIVE ScanDigits(_, _, _, _)
ScanDigits(s, p, q, acc) ==
    IF p >= q THEN acc ELSE ScanDigits(s, p + 1, q, 10 * acc + (s[p] - 48))

\* The number at p: an optional minus sign (45), then 0 or a digit 1-9 and
\* digits; an int unless a fraction (a point, 46, and digits) or an exponent
\* (e or E, 101 or 69, an optional sign, digits) follows, which make it a
\* float.
ScanNumber(s, p) ==
    LET first == IF p <= Len(s) /\ s[p] = 45 THEN p + 1 ELSE p IN
    IF first > Len(s) \/ ~IsDigit(s[first]) THEN JsonError
    ELSE LET intEnd == IF s[first] = 48 THEN first + 1 ELSE SkipDigits(s, first)
             fracEnd == IF /\ intEnd + 1 <= Len(s)
                           /\ s[intEnd] = 46
                           /\ IsDigit(s[intEnd + 1])
                        THEN SkipDigits(s, intEnd + 1)
                        ELSE intEnd
             expStart == IF fracEnd + 1 <= Len(s) /\ s[fracEnd + 1] \in {43, 45}
                         THEN fracEnd + 2
                         ELSE fracEnd + 1
             numEnd == IF /\ fracEnd <= Len(s)
                          /\ s[fracEnd] \in {101, 69}
                          /\ expStart <= Len(s)
                          /\ IsDigit(s[expStart])
                       THEN SkipDigits(s, expStart)
                       ELSE fracEnd
             magnitude == ScanDigits(s, first, intEnd, 0) IN
         IF numEnd = intEnd
         THEN Scanned(JInt(IF first = p THEN magnitude ELSE 0 - magnitude), intEnd)
         ELSE Scanned(JFloat(SubSeq(s, p, numEnd - 1)), numEnd)

\* s holds the characters of word from p on.
HasWord(s, p, word) ==
    p + Len(word) - 1 <= Len(s) /\ SubSeq(s, p, p + Len(word) - 1) = word

\* The words null, true, false, NaN, Infinity and -Infinity.
WordNull == <<110, 117, 108, 108>>

WordTrue == <<116, 114, 117, 101>>

WordFalse == <<102, 97, 108, 115, 101>>

WordNaN == <<78, 97, 78>>

WordInfinity == <<73, 110, 102, 105, 110, 105, 116, 121>>

WordMinusInfinity == <<45>> \o WordInfinity

RECURSIVE ScanValue(_, _)
RECURSIVE ScanMembers(_, _, _)
RECURSIVE ScanElements(_, _, _)

\* The members of a dict from the first character p of a key ('"' is 34,
\* ':' is 58, ',' is 44, '}' is 125), acc being the dict so far: a key that
\* comes again replaces the value of its entry.
ScanMembers(s, p, acc) ==
    IF p > Len(s) \/ s[p] # 34 THEN JsonError
    ELSE LET k == ScanString(s, p + 1, <<>>) IN
    IF ~k.ok THEN JsonError
    ELSE LET c == SkipWs(s, k.pos) IN
    IF c > Len(s) \/ s[c] # 58 THEN JsonError
    ELSE LET v == ScanValue(s, SkipWs(s, c + 1)) IN
    IF ~v.ok THEN JsonError
    ELSE LET e == SkipWs(s, v.pos)
             d == DictSet(acc, k.val, v.val) IN
    IF e > Len(s) THEN JsonError
    ELSE IF s[e] = 125 THEN Scanned(JDict(d), e + 1)
    ELSE IF s[e] # 44 THEN JsonError
    ELSE ScanMembers(s, SkipWs(s, e + 1), d)

\* The elements of a list from the first character p of an element (',' is
\* 44, ']' is 93), acc being the list so far.
ScanElements(s, p, acc) ==
    LET v == ScanValue(s, p) IN
    IF ~v.ok THEN JsonError
    ELSE LET e == SkipWs(s, v.pos) IN
    IF e > Len(s) THEN JsonError
    ELSE IF s[e] = 93 THEN Scanned(JList(Append(acc, v.val)), e + 1)
    ELSE IF s[e] # 44 THEN JsonError
    ELSE ScanElements(s, SkipWs(s, e + 1), Append(acc, v.val))

\* The JSON value that starts at p: a string ('"', 34), a dict ('{', 123), a
\* list ('[', 91), one of the words, or a number.
ScanValue(s, p) ==
    IF p > Len(s) THEN JsonError
    ELSE IF s[p] = 34
         THEN LET r == ScanString(s, p + 1, <<>>) IN
              IF r.ok THEN Scanned(JStr(r.val), r.pos) ELSE JsonError
    ELSE IF s[p] = 123
         THEN LET q == SkipWs(s, p + 1) IN
              IF q <= Len(s) /\ s[q] = 125 THEN Scanned(JDict(<<>>), q + 1)
              ELSE ScanMembers(s, q, <<>>)
    ELSE IF s[p] = 91
         THEN LET q == SkipWs(s, p + 1) IN
              IF q <= Len(s) /\ s[q] = 93 THEN Scanned(JList(<<>>), q + 1)
              ELSE ScanElements(s, q, <<>>)
    ELSE IF HasWord(s, p, WordNull) THEN Scanned(JNone, p + 4)
    ELSE IF HasWord(s, p, WordTrue) THEN Scanned(JTrue, p + 4)
    ELSE IF HasWord(s, p, WordFalse) THEN Scanned(JFalse, p + 5)
    ELSE IF HasWord(s, p, WordNaN) THEN Scanned(JFloat(WordNaN), p + 3)
    ELSE IF HasWord(s, p, WordInfinity) THEN Scanned(JFloat(WordInfinity), p + 8)
    ELSE IF HasWord(s, p, WordMinusInfinity) THEN Scanned(JFloat(WordMinusInfinity), p + 9)
    ELSE ScanNumber(s, p)

\* json.load(f): ok and the value of the one JSON document the file holds,
\* white space allowed around it, or not ok (JSONDecodeError).
JsonLoad(s) ==
    LET r == ScanValue(s, SkipWs(s, 1)) IN
    IF r.ok /\ SkipWs(s, r.pos) = Len(s) + 1 THEN r ELSE JsonError

\* len(value) is defined: the value is a dict, a list or a str.
HasLen(value) == value.t \in {"dict", "list", "str"}

\* The value is a dict whose values are all ints.
IsIntDict(value) ==
    value.t = "dict" /\ \A j \in 1..Len(value.v) : value.v[j][2].t = "int"

\* The dict of ints as the <<key, index>> pairs the encoder reads.
IntDict(value) == [j \in 1..Len(value.v) |-> <<value.v[j][1], value.v[j][2].v>>]

(***************************************************************************)
(* The encoding of one text (lines 156-160).                               *)
(***************************************************************************)
\* [''.join(bi) for bi in zip(text, text[1:])]
Bigrams(text) == [k \in 1..(Len(text) - 1) |-> <<text[k], text[k + 1]>>]

\* np.zeros(num_dims)
Zeros(dims) == [k \in 1..dims |-> 0]

\* The place of index idx in an array of len entries, counted from 0: a
\* negative index counts from the end, an index outside -len..len-1 is an
\* IndexError (not ok).
PyIndexOf(len, idx) ==
    IF idx >= 0 /\ idx < len THEN [ok |-> TRUE, val |-> idx]
    ELSE IF idx < 0 /\ 0 - idx <= len THEN [ok |-> TRUE, val |-> len + idx]
    ELSE [ok |-> FALSE, val |-> 0]

\* ohe[idx] += 1 (idx counts from 0).
OheMark(ohe, idx) == [ohe EXCEPT ![idx + 1] = 1]

OheAdd(ohe, idx) == [ohe EXCEPT ![idx + 1] = @ + 1]

\* The loop of lines 158-160 over bigrams[k..]: ok and the vector, or not ok
\* when a mapped index is outside the vector (IndexError).
RECURSIVE EncodeFrom(_, _, _, _)
EncodeFrom(m, bigrams, k, ohe) ==
    IF k > Len(bigrams) THEN [ok |-> TRUE, val |-> ohe]
    ELSE IF ~DictHas(m, bigrams[k]) THEN EncodeFrom(m, bigrams, k + 1, ohe)
    ELSE LET idx == PyIndexOf(Len(ohe), DictGet(m, bigrams[k])) IN
         IF ~idx.ok THEN [ok |-> FALSE, val |-> ohe]
         ELSE EncodeFrom(m, bigrams, k + 1, OheAdd(ohe, idx.val))

Encode(m, dims, text) == EncodeFrom(m, Bigrams(text), 1, Zeros(dims))

(***************************************************************************)
(* csv rows and the names a row is unpacked into (lines 60 and 150).       *)
(***************************************************************************)
Sentinel == <<"Place for parser output">>

\* text_id, text, masked, label_binary, label_ternary, label_finegrained,
\* source = line
Unpack(line) ==
    [bound |-> TRUE, text_id |-> line[1], text |-> line[2], label_binary |-> line[4],
     label_ternary |-> line[5], label_finegrained |-> line[6]]

\* The fields joined by ', ' in lines 165-166.
Row(u, ohe) == <<u.text_id, u.label_binary, u.label_ternary, u.label_finegrained>> \o ohe

(***************************************************************************)
(* The output file: the sequence of its lines, a line being the rows       *)
(* written on it one after the other.                                      *)
(***************************************************************************)
\* fout.write('\n'.join(rows)) for a non-empty list of rows: the first row
\* continues the last line of the file, every other row starts a line.
FileWrite(lines, rows) ==
    IF lines = <<>> THEN [k \in 1..Len(rows) |-> <<rows[k]>>]
    ELSE [k \in 1..(Len(lines) - 1) |-> lines[k]]
         \o <<lines[Len(lines)] \o <<rows[1]>>>>
         \o [k \in 1..(Len(rows) - 1) |-> <<rows[k + 1]>>]

(***************************************************************************)
(* gen_bigram_repr (lines 127-168).                                        *)
(***************************************************************************)
\* The statements of lines 136, 139, 143-147 and 148, in program order.
GenStatementsOpenFirst == <<"open_files", "check_mapping", "load_mapping", "loop">>

GenStatements == <<"check_mapping", "load_mapping", "open_files", "loop">>

After(stmt) == GenStatements[(CHOOSE k \in 1..Len(GenStatements) : GenStatements[k] = stmt) + 1]

\* Lines 136-137.
CheckMapping ==
    /\ pc = "check_mapping"
    /\ pc' = IF mapping_file.exists THEN After("check_mapping") ELSE "raised"
    /\ UNCHANGED <<mapping_file, mapping, num_dims, fin, fout, write_list, unpacked>>
    /\ UNCHANGED notEnc

\* Lines 139-141: json.load raises JSONDecodeError on a file that holds no
\* JSON document, and len raises TypeError on a value that has no length.
\* The function is modelled further for a dict of ints; a file that holds
\* another dict, a list or a str has no step here.
LoadMapping ==
    /\ pc = "load_mapping"
    /\ LET r == JsonLoad(mapping_file.text) IN
       IF ~mapping_file.exists \/ ~r.ok \/ ~HasLen(r.val)
       THEN /\ pc' = "raised"
            /\ UNCHANGED <<mapping, num_dims>>
       ELSE /\ IsIntDict(r.val)
            /\ mapping' = IntDict(r.val)
            /\ num_dims' = Len(r.val.v)
            /\ pc' = After("load_mapping")
    /\ UNCHANGED <<mapping_file, fin, fout, write_list, unpacked>>
    /\ UNCHANGED notEnc

\* Lines 143-147.
OpenFiles ==
    /\ pc = "open_files"
    /\ fout' = [exists |-> TRUE, text |-> <<>>]
    /\ write_list' = <<>>
    /\ pc' = After("open_files")
    /\ UNCHANGED <<mapping_file, mapping, num_dims, fin, unpacked>>
    /\ UNCHANGED notEnc

\* Lines 156-168 for the row with index i, u being the unpacked names.
GenBody(idx, u) ==
    LET e == Encode(mapping, num_dims, u.text) IN
    IF ~u.bound \/ ~e.ok
    THEN /\ pc' = "raised"
         /\ UNCHANGED <<fout, write_list>>
    ELSE /\ pc' = pc
         /\ IF idx % FlushCadence = 0 /\ Len(write_list) # 0
            THEN /\ fout' = [fout EXCEPT !.text = FileWrite(@, write_list)]
                 /\ write_list' = <<>>
            ELSE /\ write_list' = Append(write_list, Row(u, e.val))
                 /\ UNCHANGED fout

\* The texts and labels of the records given to the encoder.
EncTexts == {<<97, 97, 98, 98, 97>>, <<98>>}

\* The record read as row i: its id is i.
EncRecord(idx, text) == <<idx, text, text, "0", "t", "f", "s">>

Malformed == <<"x", "y">>

\* One iteration of the loop of line 148 on a 7-field row, its text drawn
\* from texts.
GenRecordFrom(texts) ==
    /\ pc = "loop"
    /\ Len(fin) < MaxLines
    /\ \E text \in texts :
          LET line == EncRecord(Len(fin), text) IN
          /\ fin' = Append(fin, line)
          /\ unpacked' = Unpack(line)
          /\ GenBody(Len(fin), Unpack(line))
    /\ UNCHANGED <<mapping_file, mapping, num_dims>>
    /\ UNCHANGED notEnc

GenRecord == GenRecordFrom(EncTexts)

\* One iteration on the placeholder row: line 153.
GenSentinel ==
    /\ pc = "loop"
    /\ Len(fin) < MaxLines
    /\ fin' = Append(fin, Sentinel)
    /\ UNCHANGED <<pc, mapping_file, mapping, num_dims, fout, write_list, unpacked>>
    /\ UNCHANGED notEnc

\* One iteration on any other row of the wrong length: line 155 starts the
\* debugger, which is left by quitting (BdbQuit is raised) ...
GenMalformedQuit ==
    /\ pc = "loop"
    /\ Len(fin) < MaxLines
    /\ fin' = Append(fin, Malformed)
    /\ pc' = "raised"
    /\ UNCHANGED <<mapping_file, mapping, num_dims, fout, write_list, unpacked>>
    /\ UNCHANGED notEnc

\* ... or by continuing at line 156 with the names of the last unpacked row.
GenMalformedContinue ==
    /\ pc = "loop"
    /\ Len(fin) < MaxLines
    /\ fin' = Append(fin, Malformed)
    /\ GenBody(Len(fin), unpacked)
    /\ UNCHANGED <<mapping_file, mapping, num_dims, unpacked>>
    /\ UNCHANGED notEnc

\* The reader is exhausted: the function returns after line 168.
GenReturn ==
    /\ pc = "loop"
    /\ pc' = "done"
    /\ UNCHANGED <<mapping_file, mapping, num_dims, fin, fout, write_list, unpacked>>
    /\ UNCHANGED notEnc

\* The mapping files of the encoder runs: none, or a dumped dense mapping.
EncMappings ==
    { <<>>,
      << <<<<97, 97>>, 0>>, <<<<97, 98>>, 1>>, <<<<98, 98>>, 2>> >> }

InitEnc ==
    /\ pc = GenStatements[1]
    /\ mapping_file \in {NoFile} \cup {[exists |-> TRUE, text |-> JsonDump(m)] : m \in EncMappings}
    /\ mapping = <<>>
    /\ num_dims = 0
    /\ fin = <<>>
    /\ fout = NoFile
    /\ write_list = <<>>
    /\ unpacked = Unbound
    /\ IdleCnt /\ IdleTop /\ IdleMap /\ IdleLab /\ IdleRepr

NextEnc ==
    \/ CheckMapping
    \/ LoadMapping
    \/ OpenFiles
    \/ GenRecord
    \/ GenSentinel
    \/ GenMalformedQuit
    \/ GenMalformedContinue
    \/ GenReturn

SpecEnc == InitEnc /\ [][NextEnc]_vars

(***************************************************************************)
(* gen_bigram_repr on one record, for every text over Chars up to          *)
(* MaxTextLen and every dense mapping of the bigrams over Chars.           *)
(***************************************************************************)
\* The characters a and b.
Chars == {97, 98}

AllBigrams == {<<c, d>> : c \in Chars, d \in Chars}

AllTexts == UNION {[1..len -> Chars] : len \in 0..MaxTextLen}

\* The dicts get_bigram_to_dim_mapping can return: distinct bigrams, the
\* j-th inserted one mapped to j - 1.
DenseMappings ==
    UNION { { [j \in 1..len |-> <<ks[j], j - 1>>] : ks \in Injections(len, AllBigrams) } :
            len \in 0..Cardinality(AllBigrams) }

VecRecord == fin = <<>> /\ GenRecordFrom(AllTexts)

InitVec ==
    /\ pc = GenStatements[1]
    /\ mapping_file \in {[exists |-> TRUE, text |-> JsonDump(m)] : m \in DenseMappings}
    /\ mapping = <<>>
    /\ num_dims = 0
    /\ fin = <<>>
    /\ fout = NoFile
    /\ write_list = <<>>
    /\ unpacked = Unbound
    /\ IdleCnt /\ IdleTop /\ IdleMap /\ IdleLab /\ IdleRepr

NextVec ==
    \/ CheckMapping
    \/ LoadMapping
    \/ OpenFiles
    \/ VecRecord
    \/ GenReturn

SpecVec == InitVec /\ [][NextVec]_vars

(***************************************************************************)
(* Claims about gen_bigram_repr.                                           *)
(***************************************************************************)
\* The row the claims expect for a 7-field input row under the loaded
\* mapping.
RowOf(line) == Row(Unpack(line), Encode(mapping, num_dims, line[2]).val)

RECURSIVE RowsOf(_)
RowsOf(lines) ==
    IF lines = <<>> THEN <<>>
    ELSE IF Len(Head(lines)) = 7 THEN <<RowOf(Head(lines))>> \o RowsOf(Tail(lines))
    ELSE RowsOf(Tail(lines))

\* C1 (as claimed): once gen_bigram_repr has consumed the whole input, the
\* output file holds exactly one row per 7-field input row, in input order,
\* each row on a line of its own.
C1_EveryRecordWritten ==
    pc = "done" =>
        fout.text = [k \in 1..Len(RowsOf(fin)) |-> <<RowsOf(fin)[k]>>]

\* The vector part of an output row.
Vector(row) == SubSeq(row, 5, Len(row))

\* The positions of text whose bigram the mapping sends to index k.
PositionsAt(m, text, k) ==
    {p \in 1..(Len(text) - 1) :
        DictHas(m, <<text[p], text[p + 1]>>) /\ DictGet(m, <<text[p], text[p + 1]>>) = k}

\* C2: the vector of every emitted row has exactly D = len(mapping) entries,
\* and entry k is the number of positions of the record's text whose bigram
\* is mapped to k; the record was encoded without an error whatever its
\* text.
C2_VectorCountsBigrams ==
    /\ pc # "raised"
    /\ \A j \in 1..Len(write_list) :
          LET text == fin[write_list[j][1] + 1][2]
              vec  == Vector(write_list[j]) IN
          /\ Len(vec) = Len(mapping)
          /\ \A k \in 0..(Len(mapping) - 1) :
                vec[k + 1] = Cardinality(PositionsAt(mapping, text, k))

\* C2 witness: mapping {aa: 0, ab: 1, bb: 2} and text aabba give [1, 1, 1].
C2_Witness ==
    /\ mapping = << <<<<97, 97>>, 0>>, <<<<97, 98>>, 1>>, <<<<98, 98>>, 2>> >>
    /\ Len(fin) = 1
    /\ fin[1][2] = <<97, 97, 98, 98, 97>>
    /\ Len(write_list) = 1
    /\ Vector(write_list[1]) = <<1, 1, 1>>

\* C8: when the mapping file does not exist the call raises at its first
\* statement: it never gets past the check, reads no input row, and the
\* output file is not created.
C8_MissingMappingRaisesFirst ==
    ~mapping_file.exists =>
        /\ pc \in {"check_mapping", "raised"}
        /\ ~fout.exists
        /\ fin = <<>>

\* C8 witness: the call has raised on a missing mapping file.
C8_Witness == ~mapping_file.exists /\ pc = "raised"

\* C11 (as claimed): at every point of gen_bigram_repr the row buffer holds
\* at most as many rows as the flush cadence, whatever the input and
\* wherever its placeholder rows are.
C11_BufferWithinCadence == Len(write_list) <= FlushCadence

(***************************************************************************)
(* get_top_n (lines 73-84).                                                *)
(***************************************************************************)
\* seq[k] of a Python list, k counting from 0 and negative k from the end:
\* ok and the element, or not ok (IndexError).
PyIndex(seq, k) ==
    IF k >= 0 /\ k < Len(seq) THEN [ok |-> TRUE, val |-> seq[k + 1]]
    ELSE IF k < 0 /\ -k <= Len(seq) THEN [ok |-> TRUE, val |-> seq[Len(seq) + k + 1]]
    ELSE [ok |-> FALSE, val |-> 0]

RECURSIVE InsertDesc(_, _)
InsertDesc(sorted, v) ==
    IF sorted = <<>> THEN <<v>>
    ELSE IF v >= Head(sorted) THEN <<v>> \o sorted
    ELSE <<Head(sorted)>> \o InsertDesc(Tail(sorted), v)

\* sorted(values, reverse=True)
RECURSIVE SortedDesc(_)
SortedDesc(values) ==
    IF values = <<>> THEN <<>>
    ELSE InsertDesc(SortedDesc(Tail(values)), Head(values))

DictValues(d) == [j \in 1..Len(d) |-> d[j][2]]

\* The index of line 83.
ThresholdIndexNext(num) == num

ThresholdIndex(num) == num - 1

\* Lines 82-84.
GetTopN ==
    /\ pc = "get_top_n"
    /\ LET counts == SortedDesc(DictValues(bigram_counts))
           threshold == PyIndex(counts, ThresholdIndex(n)) IN
       IF threshold.ok
       THEN /\ top_n' = SelectSeq(bigram_counts, LAMBDA item : item[2] >= threshold.val)
            /\ pc' = "done"
       ELSE /\ pc' = "raised"
            /\ UNCHANGED top_n
    /\ UNCHANGED <<fin, unpacked, bigram_counts, n, encVars, cntVars, mapVars, labVars, reprVars>>

InitTop ==
    /\ pc = "get_top_n"
    \* the dicts count_bigrams can return: distinct bigrams, counts from 1 on
    /\ \E len \in 0..Cardinality(AllBigrams) :
          \E ks \in Injections(len, AllBigrams), cs \in [1..len -> 1..MaxCount] :
              bigram_counts = [j \in 1..len |-> <<ks[j], cs[j]>>]
    /\ n \in 0..(Len(bigram_counts) + 1)
    /\ top_n = <<>>
    /\ fin = <<>>
    /\ unpacked = Unbound
    /\ IdleEnc /\ IdleCnt /\ IdleMap /\ IdleLab /\ IdleRepr

NextTop == GetTopN

SpecTop == InitTop /\ [][NextTop]_vars

\* The number of entries of d whose count is at least v, or above v.
AtLeast(d, v) == Cardinality({j \in 1..Len(d) : d[j][2] >= v})

Above(d, v) == Cardinality({j \in 1..Len(d) : d[j][2] > v})

\* The num-th largest count of d, duplicates counted.
NthLargest(d, num) ==
    CHOOSE v \in {d[j][2] : j \in 1..Len(d)} : Above(d, v) < num /\ AtLeast(d, v) >= num

\* C4: for 1 <= n <= len(bigram_counts), get_top_n returns (without an
\* error) exactly the bigrams whose count is at least the n-th largest
\* count, each once and with its count; so every bigram tied at the
\* boundary is kept and at least n entries are returned.
C4_TopNKeepsThresholdSet ==
    (pc # "get_top_n" /\ n >= 1 /\ n <= Len(bigram_counts)) =>
        /\ pc = "done"
        /\ DictItems(top_n) =
              {item \in DictItems(bigram_counts) : item[2] >= NthLargest(bigram_counts, n)}
        /\ Cardinality(DictKeys(top_n)) = Len(top_n)
        /\ Len(top_n) >= n

\* C4 witness: a tie at the boundary makes the result larger than n while
\* some bigram is still left out.
C4_Witness ==
    /\ pc = "done"
    /\ n >= 1
    /\ Len(top_n) > n
    /\ Len(top_n) < Len(bigram_counts)

(***************************************************************************)
(* get_bigram_to_dim_mapping (lines 87-101).                               *)
(***************************************************************************)
\* x < y for two-character Python strings: by the code points, the first
\* character first.
BigramLess(x, y) ==
    \/ x[1] < y[1]
    \/ x[1] = y[1] /\ x[2] < y[2]

\* set(top_n_ch.keys()).union(set(top_n_other.keys()))
UnionKeys(ch, other) == DictKeys(ch) \cup DictKeys(other)

\* i += 1
NextDimStuck(dim) == dim

NextDim(dim) == dim + 1

\* Lines 94-96.
MapStart ==
    /\ pc = "map_start"
    /\ mapping' = <<>>
    /\ i' = 0
    /\ all_bigrams' = UnionKeys(top_n_ch, top_n_other)
    /\ pc' = "map_loop"
    /\ UNCHANGED <<fin, unpacked, mapping_file, num_dims, fout, write_list, top_n_ch,
                   top_n_other, bigram_to_dim_mapping, cntVars, topVars, labVars, reprVars>>

\* Lines 97-99, one iteration: the loop takes the elements of the set in
\* the order of its hash table, which for strings differs from process to
\* process (hash randomisation), so any element not yet taken may be next.
MapStep ==
    /\ pc = "map_loop"
    /\ \E bigram \in all_bigrams :
          /\ mapping' = DictSet(mapping, bigram, i)
          /\ i' = NextDim(i)
          /\ all_bigrams' = all_bigrams \ {bigram}
    /\ UNCHANGED <<pc, fin, unpacked, mapping_file, num_dims, fout, write_list, top_n_ch,
                   top_n_other, bigram_to_dim_mapping, cntVars, topVars, labVars, reprVars>>

\* Line 101.
MapReturn ==
    /\ pc = "map_loop"
    /\ all_bigrams = {}
    /\ pc' = "done"
    /\ UNCHANGED <<fin, unpacked, encVars, cntVars, topVars, mapVars, labVars, reprVars>>

\* The bigrams of set in increasing order.
RECURSIVE SortedBigrams(_)
SortedBigrams(set) ==
    IF set = {} THEN <<>>
    ELSE LET least == CHOOSE x \in set : \A y \in set \ {x} : BigramLess(x, y) IN
         <<least>> \o SortedBigrams(set \ {least})

\* The selections given to the builder: for every set of bigrams a dict
\* with these keys (the builder reads the keys only).
Selections ==
    { [j \in 1..Cardinality(set) |-> <<SortedBigrams(set)[j], 1>>] : set \in SUBSET AllBigrams }

InitMap ==
    /\ pc = "map_start"
    /\ top_n_ch \in Selections
    /\ top_n_other \in Selections
    /\ all_bigrams = {}
    /\ i = 0
    /\ bigram_to_dim_mapping = <<>>
    /\ fin = <<>>
    /\ unpacked = Unbound
    /\ IdleEnc /\ IdleCnt /\ IdleTop /\ IdleLab /\ IdleRepr

NextMap ==
    \/ MapStart
    \/ MapStep
    \/ MapReturn

SpecMap == InitMap /\ [][NextMap]_vars

\* C3: the mapping returned has exactly one entry per bigram of the union
\* of the two selections, and its indices are pairwise distinct and are
\* exactly 0..D-1, D the size of the union.
C3_MappingIsDense ==
    pc = "done" =>
        LET union == DictKeys(top_n_ch) \cup DictKeys(top_n_other)
            D == Cardinality(union) IN
        /\ DictKeys(mapping) = union
        /\ Len(mapping) = D
        /\ \A x, y \in 1..Len(mapping) : x # y => mapping[x][2] # mapping[y][2]
        /\ {mapping[j][2] : j \in 1..Len(mapping)} = 0..(D - 1)

\* C3 witness: a mapping was returned for two selections that share a
\* bigram and differ in others.
C3_Witness ==
    /\ pc = "done"
    /\ DictKeys(top_n_ch) \cap DictKeys(top_n_other) # {}
    /\ DictKeys(top_n_ch) \ DictKeys(top_n_other) # {}
    /\ DictKeys(top_n_other) \ DictKeys(top_n_ch) # {}
    /\ Len(mapping) >= 3

\* C5 (as claimed): the index of every bigram of the returned mapping is
\* the number of bigrams of the union that are lexicographically smaller.
C5_IndicesInLexicographicOrder ==
    pc = "done" =>
        \A j \in 1..Len(mapping) :
            mapping[j][2] =
                Cardinality({b \in DictKeys(top_n_ch) \cup DictKeys(top_n_other) :
                                BigramLess(b, mapping[j][1])})

(***************************************************************************)
(* count_bigrams (lines 44-70).                                            *)
(***************************************************************************)
\* cur_dict[bigram] += 1 on a defaultdict(int), for bigrams[k..].
RECURSIVE CountInto(_, _, _)
CountInto(d, bigrams, k) ==
    IF k > Len(bigrams) THEN d
    ELSE CountInto(DictSet(d, bigrams[k],
                           (IF DictHas(d, bigrams[k]) THEN DictGet(d, bigrams[k]) ELSE 0) + 1),
                   bigrams, k + 1)

\* Lines 66-69, u being the unpacked names: a name that was never bound
\* raises UnboundLocalError.
CountBody(u) ==
    IF ~u.bound
    THEN /\ pc' = "raised"
         /\ UNCHANGED cntVars
    ELSE /\ pc' = pc
         /\ IF u.label_binary = "0"
            THEN /\ bigram_counts_ch' = CountInto(bigram_counts_ch, Bigrams(u.text), 1)
                 /\ UNCHANGED bigram_counts_other
            ELSE /\ bigram_counts_other' = CountInto(bigram_counts_other, Bigrams(u.text), 1)
                 /\ UNCHANGED bigram_counts_ch

\* The texts and labels of the records given to the counter.
CntTexts == {<<97, 97, 98>>, <<98, 97, 97, 97>>}

CntRecord(idx, text, label) == <<idx, text, text, label, "t", "f", "s">>

notCnt == <<encVars, topVars, mapVars, labVars, reprVars>>

\* One iteration of the loop of line 58 on a 7-field row.
CountRecord ==
    /\ pc = "count_loop"
    /\ Len(fin) < MaxLines
    /\ \E text \in CntTexts, label \in {"0", "1"} :
          LET line == CntRecord(Len(fin), text, label) IN
          /\ fin' = Append(fin, line)
          /\ unpacked' = Unpack(line)
          /\ CountBody(Unpack(line))
    /\ UNCHANGED notCnt

\* One iteration on the placeholder row: line 63 passes, and lines 66-69
\* run with the names of the last unpacked row.
CountSentinel ==
    /\ pc = "count_loop"
    /\ Len(fin) < MaxLines
    /\ fin' = Append(fin, Sentinel)
    /\ CountBody(unpacked)
    /\ UNCHANGED <<unpacked, notCnt>>

\* One iteration on any other row of the wrong length: line 65 starts the
\* debugger, which is left by quitting (BdbQuit is raised) ...
CountMalformedQuit ==
    /\ pc = "count_loop"
    /\ Len(fin) < MaxLines
    /\ fin' = Append(fin, Malformed)
    /\ pc' = "raised"
    /\ UNCHANGED <<unpacked, cntVars, notCnt>>

\* ... or by continuing at line 66.
CountMalformedContinue ==
    /\ pc = "count_loop"
    /\ Len(fin) < MaxLines
    /\ fin' = Append(fin, Malformed)
    /\ CountBody(unpacked)
    /\ UNCHANGED <<unpacked, notCnt>>

\* The reader is exhausted: line 70.
CountReturn ==
    /\ pc = "count_loop"
    /\ pc' = "done"
    /\ UNCHANGED <<fin, unpacked, cntVars, notCnt>>

InitCnt ==
    /\ pc = "count_loop"
    /\ bigram_counts_ch = <<>>
    /\ bigram_counts_other = <<>>
    /\ fin = <<>>
    /\ unpacked = Unbound
    /\ IdleEnc /\ IdleTop /\ IdleMap /\ IdleLab /\ IdleRepr

NextCnt ==
    \/ CountRecord
    \/ CountSentinel
    \/ CountMalformedQuit
    \/ CountMalformedContinue
    \/ CountReturn

SpecCnt == InitCnt /\ [][NextCnt]_vars

\* The number of positions of text that hold bigram b.
OccurrencesIn(text, b) ==
    Cardinality({p \in 1..(Len(text) - 1) : <<text[p], text[p + 1]>> = b})

\* The count of b over the 7-field rows of lines whose class is ch (label
\* "0") or other: the counts of the input with every other row removed.
RECURSIVE ExpectedCount(_, _, _)
ExpectedCount(lines, ch, b) ==
    IF lines = <<>> THEN 0
    ELSE (IF Len(Head(lines)) = 7 /\ ((Head(lines)[4] = "0") <=> ch)
          THEN OccurrencesIn(Head(lines)[2], b) ELSE 0)
         + ExpectedCount(Tail(lines), ch, b)

CountOf(d, b) == IF DictHas(d, b) THEN DictGet(d, b) ELSE 0

\* C7 (as claimed): a placeholder row or a row of the wrong length raises no
\* error and leaves both count maps as they were, so at every point the
\* counts are those of the 7-field rows read so far.
C7_SkippedRowsAreNoOps ==
    /\ pc # "raised"
    /\ \A b \in AllBigrams :
          /\ CountOf(bigram_counts_ch, b) = ExpectedCount(fin, TRUE, b)
          /\ CountOf(bigram_counts_other, b) = ExpectedCount(fin, FALSE, b)

(***************************************************************************)
(* load_id_to_label (src/bigram_based_models.py, lines 17-47).             *)
(***************************************************************************)
\* Python values that are compared across types: a field of a csv row is a
\* str, the literals 0 and 1 of lines 41 and 43 are ints.
PyStr(chars) == [type |-> "str", val |-> chars]

PyInt(num) == [type |-> "int", val |-> num]

\* a == b: a str and an int are never equal.
PyEq(a, b) == a.type = b.type /\ a.val = b.val

\* num >= goal, where goal = limit / 2 (true division).
ReachedGoal(num) == 2 * num >= limit

LabelRecord(idx, label) == <<idx, "t", "m", PyStr(label), "c">>

notLab == <<unpacked, encVars, cntVars, topVars, mapVars, reprVars>>

\* One iteration of the loop of line 31 on a 5-field row (lines 35-46); the
\* iteration starts only while line 35 does not break.
LabelRow ==
    /\ pc = "label_loop"
    /\ ~(ReachedGoal(num_ones) /\ ReachedGoal(num_zeros))
    /\ Len(fin) < MaxLines
    /\ \E lab \in {"0", "1"} :
          LET row == LabelRecord(Len(fin), lab)
              text_id == row[1]
              label == row[4] IN
          /\ fin' = Append(fin, row)
          /\ IF \/ PyEq(label, PyInt(0)) /\ ReachedGoal(num_zeros)
                \/ PyEq(label, PyInt(1)) /\ ReachedGoal(num_ones)
             THEN UNCHANGED id_to_label
             ELSE id_to_label' = DictSet(id_to_label, text_id, label)
    /\ UNCHANGED <<pc, limit, num_zeros, num_ones, notLab>>

\* One iteration on a row of the wrong length: lines 39-40.
LabelMalformed ==
    /\ pc = "label_loop"
    /\ ~(ReachedGoal(num_ones) /\ ReachedGoal(num_zeros))
    /\ Len(fin) < MaxLines
    /\ fin' = Append(fin, Malformed)
    /\ UNCHANGED <<pc, labVars, notLab>>

\* The reader yields one more row, of either kind, and line 35 breaks.
LabelBreak ==
    /\ pc = "label_loop"
    /\ ReachedGoal(num_ones) /\ ReachedGoal(num_zeros)
    /\ Len(fin) < MaxLines
    /\ \E row \in {LabelRecord(Len(fin), lab) : lab \in {"0", "1"}} \cup {Malformed} :
          fin' = Append(fin, row)
    /\ pc' = "done"
    /\ UNCHANGED <<labVars, notLab>>

\* The reader is exhausted: line 47.
LabelReturn ==
    /\ pc = "label_loop"
    /\ pc' = "done"
    /\ UNCHANGED <<fin, labVars, notLab>>

InitLab ==
    /\ pc = "label_loop"
    /\ limit \in 0..MaxLimit
    /\ id_to_label = <<>>
    /\ num_zeros = 0
    /\ num_ones = 0
    /\ fin = <<>>
    /\ unpacked = Unbound
    /\ IdleEnc /\ IdleCnt /\ IdleTop /\ IdleMap /\ IdleRepr

NextLab ==
    \/ LabelRow
    \/ LabelMalformed
    \/ LabelBreak
    \/ LabelReturn

SpecLab == InitLab /\ [][NextLab]_vars

\* The ids accepted with label lab.
Accepted(lab) == {j \in 1..Len(id_to_label) : id_to_label[j][2].val = lab}

\* C6 (as claimed): at most ceil(limit / 2) ids are accepted with label 0
\* and at most ceil(limit / 2) with label 1, and no id of a row of the wrong
\* length is accepted.
C6_QuotaPerClass ==
    /\ Cardinality(Accepted("0")) <= (limit + 1) \div 2
    /\ Cardinality(Accepted("1")) <= (limit + 1) \div 2
    /\ \A j \in 1..Len(id_to_label) : Len(fin[id_to_label[j][1] + 1]) = 5

(***************************************************************************)
(* load_id_to_repr (lines 50-77) and the assembly of the training matrix   *)
(* in load_data (lines 97-110).                                            *)
(***************************************************************************)
ReprIds == {"a", "b", "c"}

\* The columns of the row read as row idx: its id, then the numbers
\* int(float(.)) makes of the other columns.
ReprRecord(id, idx) == <<id, idx, 1>>

\* The accepted-label maps: the ids "a" and "b", each absent or labelled.
LabelMaps ==
    { SelectSeq(<<<<"a", PyStr(la)>>, <<"b", PyStr(lb)>>>>, LAMBDA e : e[2].val # "-") :
        la \in {"-", "0", "1"}, lb \in {"-", "0", "1"} }

notRepr == <<unpacked, encVars, cntVars, topVars, mapVars, limit, num_zeros, num_ones>>

\* One iteration of the loop of line 65 (lines 69-75); the iteration starts
\* only while line 69 does not break.
ReprRow ==
    /\ pc = "repr_loop"
    /\ Len(id_to_repr) # Len(id_to_label)
    /\ Len(fin) < MaxLines
    /\ \E id \in ReprIds :
          LET columns == ReprRecord(id, Len(fin))
              text_id == columns[1]
              repr == Tail(columns) IN
          /\ fin' = Append(fin, columns)
          /\ IF DictHas(id_to_label, text_id)
             THEN /\ id_to_repr' = DictSet(id_to_repr, text_id, repr)
                  /\ id_list_ordered' = Append(id_list_ordered, text_id)
             ELSE UNCHANGED <<id_to_repr, id_list_ordered>>
    /\ UNCHANGED <<pc, id_to_label, X_train, y_train, notRepr>>

\* The file yields one more line and line 69 breaks.
ReprBreak ==
    /\ pc = "repr_loop"
    /\ Len(id_to_repr) = Len(id_to_label)
    /\ Len(fin) < MaxLines
    /\ \E id \in ReprIds : fin' = Append(fin, ReprRecord(id, Len(fin)))
    /\ pc' = "assemble"
    /\ UNCHANGED <<id_to_label, reprVars, notRepr>>

\* The file is exhausted: line 77.
ReprReturn ==
    /\ pc = "repr_loop"
    /\ pc' = "assemble"
    /\ UNCHANGED <<fin, id_to_label, reprVars, notRepr>>

\* X_train[k] = repr on a row of num_feats entries: a vector of one entry
\* is broadcast, any other length is a ValueError.
AssignRow(num_feats, repr) ==
    IF Len(repr) = num_feats THEN [ok |-> TRUE, val |-> repr]
    ELSE IF Len(repr) = 1 THEN [ok |-> TRUE, val |-> [k \in 1..num_feats |-> repr[1]]]
    ELSE [ok |-> FALSE, val |-> <<>>]

\* The digits a label is written with.
Digits == <<"0", "1", "2", "3", "4", "5", "6", "7", "8", "9">>

\* float(label) of a one-digit label.
LabelValue(label) == (CHOOSE d \in 1..10 : Digits[d] = label.val) - 1

\* Lines 97-110: IndexError at line 97 when nothing matched, at line 109
\* when id_list_ordered is longer than the matrix.
Assemble ==
    /\ pc = "assemble"
    /\ IF id_to_repr = <<>>
       THEN /\ pc' = "raised"
            /\ UNCHANGED <<X_train, y_train>>
       ELSE LET num_feats == Len(id_to_repr[1][2])
                num_examples_train == Len(id_to_repr)
                rows == [k \in 1..Len(id_list_ordered) |->
                            AssignRow(num_feats, DictGet(id_to_repr, id_list_ordered[k]))] IN
            IF \/ Len(id_list_ordered) > num_examples_train
               \/ \E k \in 1..Len(id_list_ordered) : ~rows[k].ok
            THEN /\ pc' = "raised"
                 /\ UNCHANGED <<X_train, y_train>>
            ELSE /\ X_train' = [k \in 1..num_examples_train |->
                                  IF k <= Len(id_list_ordered) THEN rows[k].val
                                  ELSE Zeros(num_feats)]
                 /\ y_train' = [k \in 1..num_examples_train |->
                                  IF k <= Len(id_list_ordered)
                                  THEN LabelValue(DictGet(id_to_label, id_list_ordered[k]))
                                  ELSE 0]
                 /\ pc' = "done"
    /\ UNCHANGED <<fin, id_to_label, id_to_repr, id_list_ordered, notRepr>>

InitRepr ==
    /\ pc = "repr_loop"
    /\ id_to_label \in LabelMaps
    /\ limit = 0
    /\ num_zeros = 0
    /\ num_ones = 0
    /\ fin = <<>>
    /\ unpacked = Unbound
    /\ IdleRepr /\ IdleEnc /\ IdleCnt /\ IdleTop /\ IdleMap

NextRepr ==
    \/ ReprRow
    \/ ReprBreak
    \/ ReprReturn
    \/ Assemble

SpecRepr == InitRepr /\ [][NextRepr]_vars

\* C9 (as claimed): every matched id is recorded once; the assembly fails
\* only when no row matched; the matrix has one row per matched id, row k is
\* the vector recorded for the k-th matched id and y[k] is its label.
C9_RowsAlignWithMatchedIds ==
    /\ \A x, y \in 1..Len(id_list_ordered) : x # y => id_list_ordered[x] # id_list_ordered[y]
    /\ pc = "raised" => id_to_repr = <<>>
    /\ pc = "done" =>
          /\ Len(X_train) = Len(id_list_ordered)
          /\ Len(y_train) = Len(id_list_ordered)
          /\ \A k \in 1..Len(id_list_ordered) :
                /\ X_train[k] = DictGet(id_to_repr, id_list_ordered[k])
                /\ y_train[k] = LabelValue(DictGet(id_to_label, id_list_ordered[k]))

(***************************************************************************)
(* dump_bigram_to_dim_mapping (lines 104-111), followed by the load of     *)
(* gen_bigram_repr (lines 136-141).                                        *)
(***************************************************************************)
\* Lines 110-111.
Dump ==
    /\ pc = "dump"
    /\ mapping_file' = [exists |-> TRUE, text |-> JsonDump(bigram_to_dim_mapping)]
    /\ pc' = GenStatements[1]
    /\ UNCHANGED <<fin, unpacked, mapping, num_dims, fout, write_list, notEnc>>

\* The characters of the keys: a plain one (u), the quote and the
\* backslash, a control character (line feed), a non-ASCII one (U+00E9) and
\* one beyond U+FFFF (U+1F600).
JsonChars == {117, 34, 92, 10, 233, 128512}

\* The keys: any of these characters, then u or a backslash.
StoreKeys == {<<c, d>> : c \in JsonChars, d \in {117, 92}}

\* The indices of the mappings given to dump.
StoreIndices == {-1, 0, MaxIndex}

InitStore ==
    /\ pc = "dump"
    \* up to MaxEntries distinct bigrams over JsonChars, each with an index
    /\ \E len \in 0..MaxEntries :
          \E ks \in Injections(len, StoreKeys), vs \in [1..len -> StoreIndices] :
              bigram_to_dim_mapping = [j \in 1..len |-> <<ks[j], vs[j]>>]
    /\ top_n_ch = <<>>
    /\ top_n_other = <<>>
    /\ all_bigrams = {}
    /\ i = 0
    /\ fin = <<>>
    /\ unpacked = Unbound
    /\ IdleEnc /\ IdleCnt /\ IdleTop /\ IdleLab /\ IdleRepr

NextStore ==
    \/ Dump
    \/ CheckMapping
    \/ LoadMapping

SpecStore == InitStore /\ [][NextStore]_vars

\* C10: loading the file that dump wrote raises nothing and yields exactly
\* the bigram-index pairs that were dumped, so the size D is preserved (and
\* with the pairs the density of the indices).
C10_LoadReturnsDumpedPairs ==
    /\ pc # "raised"
    /\ pc = "open_files" =>
          /\ DictItems(mapping) = DictItems(bigram_to_dim_mapping)
          /\ Len(mapping) = Len(bigram_to_dim_mapping)
          /\ num_dims = Len(bigram_to_dim_mapping)

\* C10 witness: a loaded mapping of two entries, one with a key of a quote
\* and a backslash and a two-digit index, one with a key beyond U+FFFF and
\* a negative index.
C10_Witness ==
    /\ pc = "open_files"
    /\ Len(mapping) = 2
    /\ <<<<34, 92>>, MaxIndex>> \in DictItems(mapping)
    /\ \E e \in DictItems(mapping) : e[1][1] = 128512 /\ e[2] < 0
    /\ MaxIndex >= 10

====
